---- MODULE Spec2Model ----
(***************************************************************************)
(* A model of the real-time scheduling analysis engine (RealTime.ts):      *)
(* the task-system parser (AppTools), the task record (RTTask) and the     *)
(* analyses of RTSystem.                                                   *)
(*                                                                         *)
(* Numbers.  Execution times, periods and deadlines are the integers the   *)
(* parser reads.  A utilization (RTTask.fu, RTSystem.fu, the Liu and Bini  *)
(* bounds) is a decimal fraction rounded to DefaultDecimals places; it is  *)
(* kept here as the integer number of units of 10^-DefaultDecimals         *)
(* (hundredths).  A memoized field of RTSystem is a JavaScript value that  *)
(* may be null or NaN; it is kept as a tagged record (Null, NaN, Num(v)).  *)
(***************************************************************************)
EXTENDS Integers, Sequences, FiniteSets, TLC

VARIABLES
    pieces,       \* the chunks the input text was written from (input only)
    systemText,   \* constructor argument: the text, a sequence of characters
    outcome,      \* "new" before construction, then "ok" or "error" (a throw)
    tasks,        \* RTSystem.tasks: sequence of RTTask records
    mathjs,       \* the release of mathjs the build runs with: its math.ceil
    \* memoized fields of RTSystem
    hyperperiod, fu, n, liu, bini, firstFreeSlot, rmScheduling,
    \* instrumentation of the accessors
    writes,       \* per field: number of assignments since construction
    computations, \* per derived value: number of times it was computed
    calls,        \* number of accessor calls made
    ret,          \* the last call and what it returned (or that it threw)
    pc,           \* "idle", or the accessor whose loop is running
    \* locals of getFirstFreeSlot's loop
    previousResult, currentResult, iterations,
    \* locals of getRMScheduling's loop
    unattendendTasks, executionCount, nextStart, scheduling, currentCell,
    executionOrder

parseVars == <<pieces, systemText, outcome, tasks, mathjs>>
memoVars == <<hyperperiod, fu, n, liu, bini, firstFreeSlot, rmScheduling>>
ghostVars == <<writes, computations>>
ffsVars == <<previousResult, currentResult, iterations>>
rmVars == <<unattendendTasks, executionCount, nextStart, scheduling, currentCell,
            executionOrder>>

vars == <<parseVars, memoVars, ghostVars, calls, ret, pc, ffsVars, rmVars>>

(***************************************************************************)
(* Characters                                                              *)
(***************************************************************************)
Digits == {"0", "1", "2", "3", "4", "5", "6", "7", "8", "9"}

DigitValue(ch) ==
    CASE ch = "0" -> 0 [] ch = "1" -> 1 [] ch = "2" -> 2 [] ch = "3" -> 3
      [] ch = "4" -> 4 [] ch = "5" -> 5 [] ch = "6" -> 6 [] ch = "7" -> 7
      [] ch = "8" -> 8 [] ch = "9" -> 9

DigitChar(k) ==
    CASE k = 0 -> "0" [] k = 1 -> "1" [] k = 2 -> "2" [] k = 3 -> "3"
      [] k = 4 -> "4" [] k = 5 -> "5" [] k = 6 -> "6" [] k = 7 -> "7"
      [] k = 8 -> "8" [] k = 9 -> "9"

(***************************************************************************)
(* Constants.defaultDecimals: the rounding precision of math.round.        *)
(***************************************************************************)
DefaultDecimals == 2

FuScale == 10 ^ DefaultDecimals

\* math.round(a / b, DefaultDecimals) for a >= 0, b > 0, in units of
\* 10^-DefaultDecimals: round half up.
RoundedQuotient(a, b) == (2 * a * FuScale + b) \div (2 * b)

(***************************************************************************)
(* RTTask                                                                  *)
(***************************************************************************)
\* parseFloat of a string of decimal digits
RECURSIVE parseFloat(_)
parseFloat(ds) ==
    IF ds = <<>> THEN 0
    ELSE 10 * parseFloat(SubSeq(ds, 1, Len(ds) - 1)) + DigitValue(ds[Len(ds)])

\* new RTTask(id, c, t, d)
RTTaskSwappedMutant(id, c, t, d) ==
    [id |-> id, executionTime |-> t, period |-> c, expire |-> d,
     fu |-> IF c > 0 THEN RoundedQuotient(t, c) ELSE 0]

RTTask(id, c, t, d) ==
    [id |-> id, executionTime |-> c, period |-> t, expire |-> d,
     fu |-> IF t > 0 THEN RoundedQuotient(c, t) ELSE 0]

(***************************************************************************)
(* AppTools.parseTask: /\((\d+),(\d+),(\d+)\)/.exec(task)                   *)
(***************************************************************************)
\* the position after the longest run of digits of s that starts at p
RECURSIVE DigitRunEnd(_, _)
DigitRunEnd(s, p) ==
    IF p <= Len(s) /\ s[p] \in Digits THEN DigitRunEnd(s, p + 1) ELSE p

IsChar(s, p, ch) == p <= Len(s) /\ s[p] = ch

\* The match of the pattern that starts at position p of s: <<>> when there
\* is none, else the three captured digit strings.  \d+ is greedy and each
\* group is followed by a non-digit, so the longest run is the only match.
MatchAt(s, p) ==
    LET a1 == p + 1
        e1 == DigitRunEnd(s, a1)
        a2 == e1 + 1
        e2 == DigitRunEnd(s, a2)
        a3 == e2 + 1
        e3 == DigitRunEnd(s, a3)
    IN  IF /\ IsChar(s, p, "(")
           /\ e1 > a1 /\ IsChar(s, e1, ",")
           /\ e2 > a2 /\ IsChar(s, e2, ",")
           /\ e3 > a3 /\ IsChar(s, e3, ")")
        THEN <<SubSeq(s, a1, e1 - 1), SubSeq(s, a2, e2 - 1), SubSeq(s, a3, e3 - 1)>>
        ELSE <<>>

\* RegExp.exec without anchors: the leftmost match anywhere in s, or <<>>
\* (null).
RegexExec(s) ==
    LET starts == {p \in 1..Len(s) : MatchAt(s, p) # <<>>}
    IN  IF starts = {} THEN <<>>
        ELSE MatchAt(s, CHOOSE p \in starts : \A q \in starts : p <= q)

\* parseTask throws (reading .length of null) when exec finds no match; a
\* match always has length 4, so the explicit throw is never taken.
ParseTaskThrows(task) == RegexExec(task) = <<>>

parseTask(id, task) ==
    LET parsedTask == RegexExec(task)
    IN  RTTask(id, parseFloat(parsedTask[1]), parseFloat(parsedTask[2]),
               parseFloat(parsedTask[3]))

(***************************************************************************)
(* AppTools.parseSystemTasks                                               *)
(***************************************************************************)
\* The scan's locals: charStack, currentTask, tasks, taskId; thrown is set
\* once parseTask has thrown (the scan is abandoned).
ScanStart ==
    [charStack |-> <<>>, currentTask |-> <<>>, tasks |-> <<>>, taskId |-> 1,
     thrown |-> FALSE]

\* tasks.push(AppTools.parseTask(taskId++, currentTask)); currentTask = ""
PushTask(st) ==
    IF ParseTaskThrows(st.currentTask)
    THEN [st EXCEPT !.thrown = TRUE]
    ELSE [st EXCEPT !.tasks = Append(@, parseTask(st.taskId, st.currentTask)),
                    !.taskId = @ + 1,
                    !.currentTask = <<>>]

\* one iteration of the for loop: the switch on currentChar
ScanChar(st, currentChar) ==
    CASE currentChar = " " -> st
      [] currentChar = "(" ->
            [st EXCEPT !.charStack = Append(@, currentChar),
                       !.currentTask = Append(@, currentChar)]
      [] currentChar = ")" ->
            [st EXCEPT !.charStack =
                           IF @ = <<>> THEN @ ELSE SubSeq(@, 1, Len(@) - 1),
                       !.currentTask = Append(@, currentChar)]
      [] currentChar = "," ->
            IF Len(st.charStack) > 0
            THEN [st EXCEPT !.currentTask = Append(@, currentChar)]
            ELSE PushTask(st)
      [] OTHER -> [st EXCEPT !.currentTask = Append(@, currentChar)]

\* the for loop over system[0 .. i-1]
RECURSIVE Scan(_, _)
Scan(system, i) ==
    IF i = 0 THEN ScanStart
    ELSE LET st == Scan(system, i - 1)
         IN  IF st.thrown THEN st ELSE ScanChar(st, system[i])

\* The result of parseSystemTasks: [thrown, tasks].
parseSystemTasks(system) ==
    LET st == Scan(system, Len(system))
    IN  IF st.thrown THEN [thrown |-> TRUE, tasks |-> <<>>]
        ELSE IF Len(st.charStack) > 0 THEN [thrown |-> TRUE, tasks |-> <<>>]
        ELSE IF Len(st.currentTask) > 0
             THEN LET fin == PushTask(st)
                  IN  [thrown |-> fin.thrown,
                       tasks |-> IF fin.thrown THEN <<>> ELSE fin.tasks]
        ELSE [thrown |-> FALSE, tasks |-> st.tasks]

(***************************************************************************)
(* JavaScript values of the memoized fields and of the returns             *)
(***************************************************************************)
Null == [tag |-> "null"]
Undefined == [tag |-> "undefined"]
NaN == [tag |-> "NaN"]
Num(v) == [tag |-> "num", v |-> v]
Bool(b) == [tag |-> "bool", v |-> b]
Array(a) == [tag |-> "array", v |-> a]
Thrown == [tag |-> "throw"]

\* !x for a field that holds null or a number
Falsy(x) == x.tag \in {"null", "undefined", "NaN"} \/ (x.tag = "num" /\ x.v = 0)

\* x <= y on numbers: false when either is NaN
LessOrEqual(x, y) == x.tag = "num" /\ y.tag = "num" /\ x.v <= y.v

(***************************************************************************)
(* Arithmetic                                                              *)
(***************************************************************************)
\* math.ceil(a / b) for a period b >= 1
CeilDiv(a, b) == -((-a) \div b)

RECURSIVE Gcd(_, _)
Gcd(a, b) == IF b = 0 THEN a ELSE Gcd(b, a % b)

\* mathjs lcm of two numbers
Lcm(a, b) == IF a = 0 \/ b = 0 THEN 0 ELSE (a * b) \div Gcd(a, b)

\* mathjs lcm of the elements of a sequence of at least two numbers
RECURSIVE LcmAll(_)
LcmAll(xs) ==
    IF Len(xs) = 2 THEN Lcm(xs[1], xs[2])
    ELSE Lcm(LcmAll(SubSeq(xs, 1, Len(xs) - 1)), xs[Len(xs)])

RECURSIVE SumSeq(_)
SumSeq(xs) == IF xs = <<>> THEN 0 ELSE xs[1] + SumSeq(Tail(xs))

RECURSIVE ProdSeq(_)
ProdSeq(xs) == IF xs = <<>> THEN 1 ELSE xs[1] * ProdSeq(Tail(xs))

(***************************************************************************)
(* RTSystem: utilization and bounds                                        *)
(***************************************************************************)
\* getHyperperiod's value: math.lcm.apply(null, periods).  mathjs lcm takes
\* two or more arguments and throws a TypeError on fewer.
HyperperiodThrows(ts) == Len(ts) < 2

HyperperiodValue(ts) == LcmAll([k \in 1..Len(ts) |-> ts[k].period])

\* getFU's value: math.sum of the tasks' fu (already rounded to hundredths
\* by the RTTask constructor); mathjs sum of no numbers is 0.
FUValue(ts) == SumSeq([k \in 1..Len(ts) |-> ts[k].fu])

\* math.pow(2, 1 / n) for n >= 1 in millionths, as mathjs computes it
Pow2Root(k) ==
    CASE k = 1 -> 2000000 [] k = 2 -> 1414214 [] k = 3 -> 1259921
      [] k = 4 -> 1189207 [] k = 5 -> 1148698 [] k = 6 -> 1122462

\* getLiu's value: math.round(n * (math.pow(2, 1 / n) - 1), 2), in
\* hundredths.  For n = 0 it is 0 * (Infinity - 1) = NaN.
LiuValue(k) ==
    IF k = 0 THEN NaN
    ELSE Num((2 * k * (Pow2Root(k) - 1000000) + 10000) \div 20000)

(***************************************************************************)
(* JavaScript numbers in getBini.  A double is m * 2^e: [m |-> the whole   *)
(* number m written in limbs, least significant first, e |-> the exponent]. *)
(* Sums and products are the real results rounded to DoubleBits bits, ties *)
(* to the even m.                                                          *)
(***************************************************************************)
LimbBits == 13
LimbBase == 2 ^ LimbBits
DoubleBits == 53
GuardBits == 70

RECURSIVE BigOfNat(_)
BigOfNat(x) == IF x = 0 THEN <<>> ELSE <<x % LimbBase>> \o BigOfNat(x \div LimbBase)

Limb(A, k) == IF k <= Len(A) THEN A[k] ELSE 0

RECURSIVE BigAddFrom(_, _, _, _)
BigAddFrom(A, C, k, carry) ==
    IF k > Len(A) /\ k > Len(C)
    THEN IF carry = 0 THEN <<>> ELSE <<carry>>
    ELSE LET sum == Limb(A, k) + Limb(C, k) + carry
         IN  <<sum % LimbBase>> \o BigAddFrom(A, C, k + 1, sum \div LimbBase)

BigAdd(A, C) == BigAddFrom(A, C, 1, 0)

\* A times a whole number below LimbBase
RECURSIVE BigTimesLimbFrom(_, _, _, _)
BigTimesLimbFrom(A, x, k, carry) ==
    IF k > Len(A)
    THEN IF carry = 0 THEN <<>> ELSE <<carry>>
    ELSE LET product == A[k] * x + carry
         IN  <<product % LimbBase>>
             \o BigTimesLimbFrom(A, x, k + 1, product \div LimbBase)

RECURSIVE BigTimesFrom(_, _, _)
BigTimesFrom(A, C, k) ==
    IF k > Len(C) THEN <<>>
    ELSE BigAdd(BigTimesLimbFrom(A, C[k], 1, 0), <<0>> \o BigTimesFrom(A, C, k + 1))

BigTimes(A, C) == BigTimesFrom(A, C, 1)

\* the limbs k.. of A divided by a whole number d, 0 < d <= LimbBase
RECURSIVE BigDivLimbFrom(_, _, _)
BigDivLimbFrom(A, d, k) ==
    IF k > Len(A) THEN [q |-> <<>>, r |-> 0]
    ELSE LET high == BigDivLimbFrom(A, d, k + 1)
             current == high.r * LimbBase + A[k]
         IN  [q |-> <<current \div d>> \o high.q, r |-> current % d]

\* -1, 0 or 1 as the limbs k.. of A are below, equal to or above those of C
RECURSIVE BigCompareFrom(_, _, _)
BigCompareFrom(A, C, k) ==
    IF k > Len(A) /\ k > Len(C) THEN 0
    ELSE LET high == BigCompareFrom(A, C, k + 1)
         IN  IF high # 0 THEN high
             ELSE IF Limb(A, k) < Limb(C, k) THEN -1
             ELSE IF Limb(A, k) > Limb(C, k) THEN 1 ELSE 0

BigCompare(A, C) == BigCompareFrom(A, C, 1)

BigPow2(k) ==
    [j \in 1..(k \div LimbBits + 1) |->
        IF j = k \div LimbBits + 1 THEN 2 ^ (k % LimbBits) ELSE 0]

RECURSIVE NatBitLength(_)
NatBitLength(x) == IF x = 0 THEN 0 ELSE 1 + NatBitLength(x \div 2)

RECURSIVE BigBitLength(_)
BigBitLength(A) ==
    IF A = <<>> THEN 0
    ELSE IF A[Len(A)] = 0 THEN BigBitLength(SubSeq(A, 1, Len(A) - 1))
    ELSE (Len(A) - 1) * LimbBits + NatBitLength(A[Len(A)])

\* The double nearest to N * 2^e (plus a little more, when `more`): N cut to
\* its DoubleBits leading bits, rounded on what is cut off.
RoundToDouble(N, e, more) ==
    LET cut == BigBitLength(N) - DoubleBits
    IN  IF cut <= 0 THEN [m |-> N, e |-> e]
        ELSE LET limbs == cut \div LimbBits
                 d == BigDivLimbFrom(SubSeq(N, limbs + 1, Len(N)),
                                     2 ^ (cut % LimbBits), 1)
                 rest == SubSeq(N, 1, limbs) \o <<d.r>>
                 half == BigCompare(rest, BigPow2(cut - 1))
                 up == half > 0 \/ (half = 0 /\ (more \/ d.q[1] % 2 = 1))
             IN  [m |-> IF up THEN BigAdd(d.q, <<1>>) ELSE d.q, e |-> e + cut]

\* the double nearest to a / d, as parseFloat gives it for the decimal a / d
DoubleOfRatio(a, d) ==
    IF a = 0 THEN [m |-> <<>>, e |-> 0]
    ELSE LET q == BigDivLimbFrom(BigTimes(BigOfNat(a), BigPow2(GuardBits)), d, 1)
         IN  RoundToDouble(q.q, -GuardBits, q.r # 0)

\* m of the double x when it is written with the exponent e <= x.e
DoubleAt(x, e) == BigTimes(x.m, BigPow2(x.e - e))

DoublePlus(x, y) ==
    LET e == IF x.e < y.e THEN x.e ELSE y.e
    IN  RoundToDouble(BigAdd(DoubleAt(x, e), DoubleAt(y, e)), e, FALSE)

DoubleTimes(x, y) == RoundToDouble(BigTimes(x.m, y.m), x.e + y.e, FALSE)

DoubleLess(x, y) ==
    LET e == IF x.e < y.e THEN x.e ELSE y.e
    IN  BigCompare(DoubleAt(x, e), DoubleAt(y, e)) < 0

\* getBini: math.round(math.prod(fu_i + 1), 2) in hundredths; mathjs prod of
\* no numbers throws.
BiniThrows(ts) == Len(ts) = 0

\* the factors fu_i + 1 in hundredths
BiniFactors(ts) == [k \in 1..Len(ts) |-> ts[k].fu + FuScale]

\* math.prod of the doubles o.fu + 1 of tasks[0..k-1], multiplied in order
RECURSIVE BiniProduct(_, _)
BiniProduct(ts, k) ==
    LET factor == DoublePlus(DoubleOfRatio(ts[k].fu, FuScale), DoubleOfRatio(1, 1))
    IN  IF k = 1 THEN factor ELSE DoubleTimes(BiniProduct(ts, k - 1), factor)

\* The real product lies exactly half way between two hundredths.
BiniTie(ts) ==
    LET p == ProdSeq(BiniFactors(ts))
        d == FuScale ^ (Len(ts) - 1)
    IN  d > 1 /\ p % d = d \div 2

\* The values math.round can give.  Away from a tie the error of the double
\* product is far smaller than its distance to the tie, and the result is
\* the real product rounded half up.  On a tie x.xx5 the result follows the
\* double: mathjs rounds the shortest decimal that denotes it, which is
\* x.xx5 or more when the double is at or above the double nearest to
\* x.xx5 and x.xx4999... when it is below.  In the latter case later
\* releases of mathjs first round to twelve decimals and so give the upper
\* hundredth; the release is not fixed by the sources.
BiniValues(ts) ==
    LET p == ProdSeq(BiniFactors(ts))
        d == FuScale ^ (Len(ts) - 1)
        up == IF d = 1 THEN p ELSE (p + d \div 2) \div d
    IN  IF BiniTie(ts)
           /\ DoubleLess(BiniProduct(ts, Len(ts)), DoubleOfRatio(2 * up - 1, 2 * FuScale))
        THEN {up - 1, up}
        ELSE {up}

\* what the body of getBini ends in when it computes
BiniOutcomes(ts) ==
    IF BiniThrows(ts) THEN {Thrown} ELSE {Num(v) : v \in BiniValues(ts)}

(***************************************************************************)
(* JavaScript numbers in getTaskResponse and getFirstFreeSlot.  A number   *)
(* is Num(v) when it is a whole number of fewer than IntBits bits,         *)
(* Double(neg, m, e) = -+ m * 2^e with m odd when it is any other finite   *)
(* number, Infinity(neg) or NaN.  -0 is not told from 0: no operation here *)
(* gives a different result for it.                                        *)
(***************************************************************************)
IntBits == 30
AbsorbedBits == 54
MaxExponent == 1024
SmallDivisor == 2 ^ (IntBits - LimbBits)

Infinity(neg) == [tag |-> "infinity", neg |-> neg]
Double(neg, m, e) == [tag |-> "double", neg |-> neg, m |-> m, e |-> e]

\* A without its leading zero limbs
RECURSIVE BigTrim(_)
BigTrim(A) ==
    IF A = <<>> \/ A[Len(A)] # 0 THEN A ELSE BigTrim(SubSeq(A, 1, Len(A) - 1))

RECURSIVE BigToNat(_)
BigToNat(A) == IF A = <<>> THEN 0 ELSE A[1] + LimbBase * BigToNat(Tail(A))

\* A - C for A >= C
RECURSIVE BigMinusFrom(_, _, _, _)
BigMinusFrom(A, C, k, borrow) ==
    IF k > Len(A) THEN <<>>
    ELSE LET difference == A[k] - Limb(C, k) - borrow
         IN  IF difference < 0
             THEN <<difference + LimbBase>> \o BigMinusFrom(A, C, k + 1, 1)
             ELSE <<difference>> \o BigMinusFrom(A, C, k + 1, 0)

BigMinus(A, C) == BigMinusFrom(A, C, 1, 0)

\* A without its k lowest bits
BigShiftRight(A, k) ==
    IF k \div LimbBits >= Len(A) THEN <<>>
    ELSE BigDivLimbFrom(SubSeq(A, k \div LimbBits + 1, Len(A)),
                        2 ^ (k % LimbBits), 1).q

\* A * 2^k
BigShiftLeft(A, k) ==
    [j \in 1..(k \div LimbBits) |-> 0]
    \o BigTimesLimbFrom(A, 2 ^ (k % LimbBits), 1, 0)

RECURSIVE NatTrailingZeros(_)
NatTrailingZeros(x) == IF x % 2 = 1 THEN 0 ELSE 1 + NatTrailingZeros(x \div 2)

\* the number of zero bits below the lowest set bit of A # 0
RECURSIVE BigTrailingZeros(_)
BigTrailingZeros(A) ==
    IF A[1] = 0 THEN LimbBits + BigTrailingZeros(Tail(A))
    ELSE NatTrailingZeros(A[1])

\* The remainder r < d and the bits j.. of the limb a, divided by the whole
\* number d: bit after bit, 2 * r + bit is compared with d as r with
\* d - r - bit.
RECURSIVE LimbDivide(_, _, _, _)
LimbDivide(r, a, d, j) ==
    IF j = LimbBits THEN [q |-> 0, r |-> r]
    ELSE LET high == LimbDivide(r, a, d, j + 1)
             bit == (a \div 2 ^ j) % 2
             fits == high.r >= d - high.r - bit
         IN  [q |-> 2 * high.q + (IF fits THEN 1 ELSE 0),
              r |-> IF fits THEN high.r - (d - high.r - bit)
                    ELSE 2 * high.r + bit]

\* The limbs k.. of A divided by a whole number d >= 1, by long division
\* from the most significant limb: the limbs of the quotient in that order.
RECURSIVE BigDivFrom(_, _, _)
BigDivFrom(A, d, k) ==
    IF k > Len(A) THEN [q |-> <<>>, r |-> 0]
    ELSE LET high == BigDivFrom(A, d, k + 1)
             limb == LimbDivide(high.r, A[k], d, 0)
         IN  [q |-> high.q \o <<limb.q>>, r |-> limb.r]

Reversed(A) == [k \in 1..Len(A) |-> A[Len(A) + 1 - k]]

QuotientOf(x) == [q |-> x.q, exact |-> x.r = 0]

\* A divided by the whole number d >= 1: the quotient, and whether it is
\* exact.  Up to SmallDivisor a remainder and one more limb fit in a word.
BigQuotient(A, d) ==
    IF d <= SmallDivisor THEN QuotientOf(BigDivLimbFrom(A, d, 1))
    ELSE QuotientOf([BigDivFrom(A, d, 1) EXCEPT !.q = Reversed(@)])

Signed(neg, v) == IF neg THEN -v ELSE v

Abs(v) == IF v < 0 THEN -v ELSE v

\* -+ m * 2^e for m > 0, e having made m odd
Finite(neg, m, e) ==
    IF e >= 0 /\ BigBitLength(m) + e <= IntBits
    THEN Num(Signed(neg, BigToNat(m) * 2 ^ e))
    ELSE Double(neg, m, e)

OddPart(neg, m, e, zeros) ==
    Finite(neg, BigTrim(BigShiftRight(m, zeros)), e + zeros)

\* -+ r.m * 2^r.e of at most DoubleBits bits as a number: Infinity from
\* 2^MaxExponent on
Canonical(neg, r) ==
    IF BigBitLength(r.m) = 0 THEN Num(0)
    ELSE IF BigBitLength(r.m) + r.e > MaxExponent THEN Infinity(neg)
    ELSE OddPart(neg, r.m, r.e, BigTrailingZeros(r.m))

\* The number nearest to -+ N * 2^e (N * 2^e and a little more, when
\* `more`), as an operation on doubles gives it.
JSNumber(neg, N, e, more) == Canonical(neg, RoundToDouble(N, e, more))

\* a whole number as a number
FromInt(v) ==
    IF -(2 ^ IntBits) < v /\ v < 2 ^ IntBits THEN Num(v)
    ELSE JSNumber(v < 0, BigOfNat(Abs(v)), 0, FALSE)

\* sign, m and e of a finite number
Parts(x) ==
    IF x.tag = "num" THEN [neg |-> x.v < 0, m |-> BigOfNat(Abs(x.v)), e |-> 0]
    ELSE [neg |-> x.neg, m |-> x.m, e |-> x.e]

IsNegative(x) == IF x.tag = "num" THEN x.v < 0 ELSE x.tag # "NaN" /\ x.neg

\* x == y
JSEqual(x, y) == x.tag # "NaN" /\ x = y

QuotientNumber(neg, r, e) == JSNumber(neg, r.q, e, ~r.exact)

\* -+ m * 2^e / d from the quotient of m * 2^guard by d
DoubleOver(neg, m, e, d, guard) ==
    QuotientNumber(neg, BigQuotient(BigShiftLeft(m, guard), d), e - guard)

\* x / d for a double x and a whole number d >= 1.  The quotient of whole
\* numbers it is rounded from has two bits more than a double.
JSDivide(x, d) ==
    DoubleOver(x.neg, x.m, x.e, d,
               DoubleBits + 2 + NatBitLength(d) - BigBitLength(x.m))

\* the number of bits of the whole part of a finite number
Magnitude(p) == BigBitLength(p.m) + p.e

\* |p| < |q| on the parts of finite numbers
SmallerParts(p, q) ==
    IF Magnitude(p) # Magnitude(q) THEN Magnitude(p) < Magnitude(q)
    ELSE LET e == IF p.e < q.e THEN p.e ELSE q.e
         IN  BigCompare(BigShiftLeft(p.m, p.e - e),
                        BigShiftLeft(q.m, q.e - e)) < 0

\* What math.ceil does depends on the release of mathjs, which the sources
\* do not fix: Math.ceil(x), or round(x) when nearlyEqual(x, round(x),
\* config.epsilon) and Math.ceil(x) otherwise.
CeilReleases == {"Math.ceil", "nearlyEqual"}

\* config.epsilon = 1e-12: the double 4951760157141521 * 2^-92
Epsilon == [m |-> <<2577, 2415, 1632, 815, 1>>, e |-> -92]

\* Math.ceil(x) for a double x with e < 0, which is not a whole number
MathCeil(x) ==
    IF x.neg THEN JSNumber(TRUE, BigShiftRight(x.m, -x.e), 0, FALSE)
    ELSE JSNumber(FALSE, BigAdd(BigShiftRight(x.m, -x.e), <<1>>), 0, FALSE)

\* nearlyEqual(x, round(x), epsilon) from diff = |x - round(x)| = D * 2^e
\* and the larger p of |x| and |round(x)|: diff < DBL_EPSILON = 2^-52 or
\* diff <= p * epsilon, the product being a double
NearlyEqual(D, e, p) ==
    \/ BigBitLength(D) + e <= -(DoubleBits - 1)
    \/ ~SmallerParts(RoundToDouble(BigTimes(p.m, Epsilon.m),
                                   p.e + Epsilon.e, FALSE),
                     [m |-> D, e |-> e])

\* round(x) is the whole part W of |x| when the rest F * 2^e of |x| is below
\* a half, and W + 1 when it is a half or more (`up`)
CeilRounded(x, W, F, up) ==
    IF NearlyEqual(IF up THEN BigTrim(BigMinus(BigPow2(-x.e), F)) ELSE F, x.e,
                   IF up THEN [m |-> BigAdd(W, <<1>>), e |-> 0]
                   ELSE [m |-> x.m, e |-> x.e])
    THEN JSNumber(x.neg, IF up THEN BigAdd(W, <<1>>) ELSE W, 0, FALSE)
    ELSE MathCeil(x)

CeilFrom(x, W, F) ==
    CeilRounded(x, W, F, BigCompare(BigShiftLeft(F, 1), BigPow2(-x.e)) >= 0)

CeilNearlyEqual(x, W) ==
    CeilFrom(x, W, BigTrim(BigMinus(x.m, BigShiftLeft(W, -x.e))))

\* math.ceil(x) of the release: a double with e < 0 is not a whole number
JSCeil(release, x) ==
    IF x.tag # "double" \/ x.e >= 0 THEN x
    ELSE IF release = "nearlyEqual"
         THEN CeilNearlyEqual(x, BigTrim(BigShiftRight(x.m, -x.e)))
    ELSE MathCeil(x)

\* math.ceil(x / d) for a whole number d >= 0.  Below 2^IntBits the double
\* nearest to the quotient of two whole numbers has the ceiling of the
\* quotient itself, and is not nearly equal to another whole number.
CeilOfQuotient(release, x, d) ==
    IF x.tag = "NaN" THEN NaN
    ELSE IF d = 0 THEN (IF x = Num(0) THEN NaN ELSE Infinity(IsNegative(x)))
    ELSE IF x.tag = "infinity" THEN x
    ELSE IF x.tag = "num" THEN Num(CeilDiv(x.v, d))
    ELSE JSCeil(release, JSDivide(x, d))

TimesParts(p, c) == JSNumber(p.neg, BigTimes(p.m, BigOfNat(c)), p.e, FALSE)

\* x * c for a whole number c >= 0
JSTimes(x, c) ==
    IF x.tag = "NaN" THEN NaN
    ELSE IF x.tag = "infinity" THEN (IF c = 0 THEN NaN ELSE x)
    ELSE IF x.tag = "num" /\ (c = 0 \/ Abs(x.v) <= (2 ^ IntBits - 1) \div c)
         THEN Num(x.v * c)
    ELSE TimesParts(Parts(x), c)

\* -+ A * 2^e -+ C * 2^e, the signs those of p and q
SumOfAligned(p, q, A, C, e, order) ==
    IF p.neg = q.neg THEN JSNumber(p.neg, BigAdd(A, C), e, FALSE)
    ELSE IF order = 0 THEN Num(0)
    ELSE IF order > 0 THEN JSNumber(p.neg, BigMinus(A, C), e, FALSE)
    ELSE JSNumber(q.neg, BigMinus(C, A), e, FALSE)

Aligned(p, q, A, C, e) == SumOfAligned(p, q, A, C, e, BigCompare(A, C))

AlignedSum(p, q, e) ==
    Aligned(p, q, BigShiftLeft(p.m, p.e - e), BigShiftLeft(q.m, q.e - e), e)

\* x + y with parts p and q, one of them a double.  A number with
\* AbsorbedBits bits less than the other is below a quarter of its last bit.
PlusParts(x, y, p, q) ==
    IF y = Num(0) \/ Magnitude(p) - Magnitude(q) > AbsorbedBits THEN x
    ELSE IF x = Num(0) \/ Magnitude(q) - Magnitude(p) > AbsorbedBits THEN y
    ELSE AlignedSum(p, q, IF p.e < q.e THEN p.e ELSE q.e)

\* x + y
JSPlus(x, y) ==
    IF x.tag = "NaN" \/ y.tag = "NaN" THEN NaN
    ELSE IF x.tag = "infinity"
         THEN (IF y.tag = "infinity" /\ y.neg # x.neg THEN NaN ELSE x)
    ELSE IF y.tag = "infinity" THEN y
    ELSE IF x.tag = "num" /\ y.tag = "num" THEN FromInt(x.v + y.v)
    ELSE PlusParts(x, y, Parts(x), Parts(y))

(***************************************************************************)
(* RTSystem.getTaskResponse and getTaskTiming                              *)
(***************************************************************************)
MaxIterations == 50

\* The for loop over j < taskIndex, which adds the interference of
\* tasks[0..taskIndex-1], one after the other, to `initial`.
RECURSIVE Interference(_, _, _, _, _)
Interference(release, ts, taskIndex, seed, initial) ==
    IF taskIndex = 0 THEN initial
    ELSE JSPlus(Interference(release, ts, taskIndex - 1, seed, initial),
                JSTimes(CeilOfQuotient(release, seed, ts[taskIndex].period),
                        ts[taskIndex].executionTime))

\* The locals of the do-while loop at its entry, and the values `iteration`
\* has taken: none yet.
ResponseEntry(seed, iterationCount) ==
    [seed |-> seed, iterationCount |-> iterationCount, finish |-> FALSE,
     iterations |-> <<>>]

\* the rest of a pass, once the for loop has computed `iteration`
ResponseTest(l, iteration) ==
    [seed |-> IF JSEqual(l.seed, iteration) THEN l.seed ELSE iteration,
     iterationCount |-> l.iterationCount + 1,
     finish |-> JSEqual(l.seed, iteration),
     iterations |-> Append(l.iterations, iteration)]

\* the loop has been left: its body runs once before the first test
ResponseLeft(l) ==
    l.iterations # <<>> /\ (l.finish \/ l.iterationCount >= MaxIterations)

\* one pass of the do-while loop
ResponsePass(release, ts, task, taskIndex, l) ==
    ResponseTest(l, Interference(release, ts, taskIndex, l.seed,
                                 FromInt(task.executionTime)))

\* The next `passes` passes, one half after the other; a loop that has been
\* left stays as it is.
RECURSIVE ResponsePasses(_, _, _, _, _, _)
ResponsePasses(release, ts, task, taskIndex, l, passes) ==
    IF ResponseLeft(l) THEN l
    ELSE IF passes = 1 THEN ResponsePass(release, ts, task, taskIndex, l)
    ELSE ResponsePasses(release, ts, task, taskIndex,
                        ResponsePasses(release, ts, task, taskIndex, l,
                                       passes \div 2),
                        passes - passes \div 2)

ResponseLocals(l) ==
    [iteration |-> l.iterations[Len(l.iterations)],
     iterationCount |-> l.iterationCount, finish |-> l.finish]

\* The do-while loop from its entry with the given seed and iterationCount:
\* the locals when it exits, which it does within MaxIterations passes.
ResponseLoop(release, ts, task, taskIndex, seed, iterationCount) ==
    ResponseLocals(ResponsePasses(release, ts, task, taskIndex,
                                  ResponseEntry(seed, iterationCount),
                                  MaxIterations))

\* The values of `iteration`, pass after pass, of the same loop.
ResponseIterations(release, ts, task, taskIndex, seed, iterationCount) ==
    ResponsePasses(release, ts, task, taskIndex,
                   ResponseEntry(seed, iterationCount),
                   MaxIterations).iterations

ResponseOfLoop(r) == IF r.iterationCount < MaxIterations THEN r.iteration ELSE Num(-1)

getTaskResponse(release, ts, task, previousTaskTime, iterationIndex) ==
    LET seed == JSPlus(previousTaskTime, FromInt(task.executionTime))
        taskIndex == iterationIndex % Len(ts)
    IN  ResponseOfLoop(ResponseLoop(release, ts, task, taskIndex, seed, 0))

\* result after the for loop has pushed the entries of tasks[1 .. upto - 1]
RECURSIVE TimingPrefix(_, _, _)
TimingPrefix(release, ts, upto) ==
    IF upto = 1 THEN <<FromInt(ts[1].executionTime)>>
    ELSE LET result == TimingPrefix(release, ts, upto - 1)
             previousResult_ == result[Len(result)]
         IN  Append(result, getTaskResponse(release, ts, ts[upto],
                                            previousResult_, upto - 1))

ExecutionTimesMutant(release, ts) ==
    [k \in 1..Len(ts) |-> FromInt(ts[k].executionTime)]

getTaskTiming(release, ts) ==
    IF Len(ts) = 0 THEN <<>> ELSE TimingPrefix(release, ts, Len(ts))

(***************************************************************************)
(* RTSystem.getFirstFreeSlot: the loop body                                *)
(***************************************************************************)
\* 1 + the sum over all tasks of ceil(previousResult / Tj) * Cj
FirstFreeSlotIteration(release, ts, previous) ==
    Interference(release, ts, Len(ts), previous, Num(1))

\* 1 + _.last(timing): _.last of an empty array is undefined and
\* 1 + undefined is NaN
FirstFreeSlotSeed(timing) ==
    IF timing = <<>> THEN NaN ELSE JSPlus(Num(1), timing[Len(timing)])

(***************************************************************************)
(* RTSystem.getRMScheduling: one cell of the simulation                    *)
(***************************************************************************)
\* _.difference(xs, [x]) and _.contains(xs, x)
KeepAllMutant(xs, x) == xs
AlwaysContainsMutant(xs, x) == TRUE

Difference(xs, x) == SelectSeq(xs, LAMBDA y : y # x)

Contains(xs, x) == \E k \in 1..Len(xs) : xs[k] = x

\* The body of the for loop for tasks[i-1]; st holds the loop's locals and
\* selected (selectedTask != null).
RMTaskStep(ts, st, i) ==
    LET currentTask == ts[i]
        taskId == currentTask.id
        release == st.currentCell = st.nextStart[taskId]
        st1 == IF release
               THEN [st EXCEPT !.nextStart[taskId] = @ + currentTask.period,
                               !.executionCount[taskId] = 0,
                               !.unattendendTasks = Append(@, taskId)]
               ELSE st
    IN  IF ~st1.selected /\ Contains(st1.unattendendTasks, taskId)
        THEN LET count == st1.executionCount[taskId] + 1
             IN  [st1 EXCEPT !.selected = TRUE,
                             !.scheduling[taskId] = Append(@, TRUE),
                             !.executionCount[taskId] = count,
                             !.executionOrder = Append(@, taskId),
                             !.unattendendTasks =
                                 IF count >= currentTask.executionTime
                                 THEN Difference(@, taskId) ELSE @]
        ELSE [st1 EXCEPT !.scheduling[taskId] = Append(@, FALSE)]

\* the for loop over tasks[0 .. i-1] within one cell
RECURSIVE RMCellLoop(_, _, _)
RMCellLoop(ts, st, i) ==
    IF i = 0 THEN st ELSE RMTaskStep(ts, RMCellLoop(ts, st, i - 1), i)

(***************************************************************************)
(* RTSystem.calculateTaskSlack and what it calls                           *)
(***************************************************************************)
\* getTaskProportion with FloorRoofFunctionType.ceiling, the only type it is
\* called with: the first case label selects math.ceil.
getTaskProportion(task, nextExpiration) ==
    IF task.period > 0
    THEN CeilDiv(nextExpiration, task.period) * task.executionTime
    ELSE 0

\* the while loop of getNextExpiration
RECURSIVE NextExpirationLoop(_, _, _)
NextExpirationLoop(result, referenceCell, period) ==
    IF result < referenceCell
    THEN NextExpirationLoop(result + period, referenceCell, period)
    ELSE result

StartsAtZeroMutant(referenceCell, period) ==
    NextExpirationLoop(0, referenceCell, period)

getNextExpiration(referenceCell, period) ==
    NextExpirationLoop(period, referenceCell, period)

\* results after the for loop of getSlackExpirations has seen tasks[0..upto-1]
RECURSIVE SlackExpirationsLoop(_, _, _, _)
SlackExpirationsLoop(ts, upto, lowerLimit, nextExpiration) ==
    IF upto = 0 THEN <<>>
    ELSE LET results == SlackExpirationsLoop(ts, upto - 1, lowerLimit, nextExpiration)
             taskNextExpiration == getNextExpiration(lowerLimit, ts[upto].period)
         IN  IF taskNextExpiration >= lowerLimit /\ taskNextExpiration <= nextExpiration
             THEN Append(results, taskNextExpiration)
             ELSE results

getSlackExpirations(ts, nextExpiration, responseCell, taskExecutionTime) ==
    LET lowerLimit == nextExpiration - responseCell + taskExecutionTime
    IN  SlackExpirationsLoop(ts, Len(ts), lowerLimit, nextExpiration)

calculateF == 0

\* partialSum after the inner for loop has added tasks[0 .. upto-1]
RECURSIVE PartialSum(_, _, _)
PartialSum(ts, upto, intervalExpiration) ==
    IF upto = 0 THEN 0
    ELSE PartialSum(ts, upto - 1, intervalExpiration)
         + getTaskProportion(ts[upto], intervalExpiration)

\* math.min of a non-empty array
RECURSIVE MinSeq(_)
MinSeq(xs) ==
    IF Len(xs) = 1 THEN xs[1]
    ELSE LET m == MinSeq(Tail(xs)) IN IF xs[1] < m THEN xs[1] ELSE m

\* calculateTaskSlack(task, responseTime, taskIndex).  The inner loop reads
\* this.tasks[k] for k <= taskIndex: past the end of the array that is
\* undefined and getTaskProportion throws a TypeError.  math.min of an empty
\* array throws.
calculateTaskSlack(ts, task, responseTime, taskIndex) ==
    LET intervalExpirations ==
            getSlackExpirations(ts, task.period, responseTime, task.executionTime)
        nextExpiration == task.period
        partialSlacks ==
            [j \in 1..Len(intervalExpirations) |->
                nextExpiration - calculateF
                - PartialSum(ts, taskIndex + 1, intervalExpirations[j])]
    IN  IF intervalExpirations = <<>> \/ taskIndex >= Len(ts)
        THEN Thrown
        ELSE LET slack == MinSeq(partialSlacks)
             IN  Num(IF slack = -1 THEN 0 ELSE slack)

(***************************************************************************)
(* Input texts of the parser specification                                 *)
(***************************************************************************)
MaxPieces == 5

\* decimal digits of k >= 0
RECURSIVE NumToDigits(_)
NumToDigits(k) ==
    IF k < 10 THEN <<DigitChar(k)>>
    ELSE Append(NumToDigits(k \div 10), DigitChar(k % 10))

\* "(C,T,D)", and the same with spaces around its tokens
TripleText(v) ==
    <<"(">> \o NumToDigits(v[1]) \o <<",">> \o NumToDigits(v[2]) \o <<",">>
        \o NumToDigits(v[3]) \o <<")">>

SpacedTripleText(v) ==
    <<"(", " ">> \o NumToDigits(v[1]) \o <<" ", ",">> \o NumToDigits(v[2])
        \o <<",", " ", " ">> \o NumToDigits(v[3]) \o <<" ", ")">>

TripleValues == {<<1, 5, 5>>, <<20, 7, 105>>}

TriplePieces ==
    {[kind |-> "triple", value |-> v, text |-> TripleText(v)] : v \in TripleValues}
    \cup {[kind |-> "triple", value |-> <<0, 12, 3>>,
           text |-> SpacedTripleText(<<0, 12, 3>>)]}

OtherPieces ==
    {[kind |-> "other", value |-> <<>>, text |-> <<ch>>] :
        ch \in {",", " ", "(", ")", "x", "7"}}

Pieces == TriplePieces \cup OtherPieces

PieceSeqs == UNION {[1..k -> Pieces] : k \in 0..MaxPieces}

RECURSIVE Flatten(_)
Flatten(ps) ==
    IF ps = <<>> THEN <<>> ELSE ps[1].text \o Flatten(Tail(ps))

(***************************************************************************)
(* new RTSystem(systemText)                                                *)
(***************************************************************************)
\* RTSystem's fields as the constructor leaves them (_rmScheduling is not
\* assigned: undefined), and the instrumentation and the locals at rest
FieldNames == {"hyperperiod", "fu", "n", "liu", "bini", "firstFreeSlot",
               "rmScheduling", "responseTimes"}

FreshFields ==
    /\ hyperperiod = Null /\ fu = Null /\ n = Null /\ liu = Null /\ bini = Null
    /\ firstFreeSlot = Null /\ rmScheduling = Undefined
    /\ writes = [f \in FieldNames |-> 0]
    /\ computations = [f \in FieldNames |-> 0]
    /\ calls = 0
    /\ ret = [call |-> "none", value |-> Undefined]
    /\ pc = "idle"

NoFFSLocals ==
    /\ previousResult = Null /\ currentResult = Null /\ iterations = 0

NoRMLocals ==
    /\ unattendendTasks = <<>> /\ executionCount = <<>> /\ nextStart = <<>>
    /\ scheduling = <<>> /\ currentCell = 0 /\ executionOrder = <<>>

InitParse ==
    /\ pieces \in PieceSeqs
    /\ systemText = Flatten(pieces)
    /\ outcome = "new"
    /\ tasks = <<>>
    /\ mathjs \in CeilReleases
    /\ FreshFields /\ NoFFSLocals /\ NoRMLocals

\* The constructor: a throw of the parser leaves no system.
Construct ==
    /\ outcome = "new"
    /\ LET r == parseSystemTasks(systemText)
       IN  /\ outcome' = IF r.thrown THEN "error" ELSE "ok"
           /\ tasks' = r.tasks
    /\ UNCHANGED <<pieces, systemText, mathjs, memoVars, ghostVars, calls, ret, pc,
                   ffsVars, rmVars>>

NextParse == Construct

SpecParse == InitParse /\ [][NextParse]_vars

(***************************************************************************)
(* Task systems the analysis specifications start from: the state after    *)
(* new RTSystem(text) for a text of triples (C,T,T).                        *)
(***************************************************************************)
SystemOf(cts) ==
    [k \in 1..Len(cts) |-> RTTask(k, cts[k][1], cts[k][2], cts[k][2])]

SystemsOver(pool, maxTasks) ==
    {SystemOf(cts) : cts \in UNION {[1..k -> pool] : k \in 0..maxTasks}}

Grid(maxC, maxT) == (0..maxC) \X (1..maxT)

Constructed(systems) ==
    /\ pieces = <<>> /\ systemText = <<>>
    /\ outcome = "ok"
    /\ tasks \in systems
    /\ mathjs \in CeilReleases
    /\ FreshFields /\ NoFFSLocals /\ NoRMLocals

(***************************************************************************)
(* The accessors of RTSystem.  An accessor reads and writes the fields of  *)
(* the object: o is the record of the fields and of the instrumentation,   *)
(* and each Do... gives the object after the call and the value returned.  *)
(***************************************************************************)
Object ==
    [hyperperiod |-> hyperperiod, fu |-> fu, n |-> n, liu |-> liu, bini |-> bini,
     writes |-> writes, computations |-> computations]

Computed(o, f) == [o EXCEPT !.computations[f] = @ + 1]
Written(o, f) == [o EXCEPT !.writes[f] = @ + 1]

DoGetHyperperiod(o) ==
    IF Falsy(o.hyperperiod)
    THEN IF HyperperiodThrows(tasks)
         THEN [o |-> o, value |-> Thrown]
         ELSE LET v == Num(HyperperiodValue(tasks))
              IN  [o |-> [Written(Computed(o, "hyperperiod"), "hyperperiod")
                             EXCEPT !.hyperperiod = v],
                   value |-> v]
    ELSE [o |-> o, value |-> o.hyperperiod]

DoGetFU(o) ==
    IF Falsy(o.fu)
    THEN LET v == Num(FUValue(tasks))
         IN  [o |-> [Written(Computed(o, "fu"), "fu") EXCEPT !.fu = v], value |-> v]
    ELSE [o |-> o, value |-> o.fu]

DoGetN(o) ==
    IF Falsy(o.n)
    THEN LET v == Num(Len(tasks))
         IN  [o |-> [Written(Computed(o, "n"), "n") EXCEPT !.n = v], value |-> v]
    ELSE [o |-> o, value |-> o.n]

DoGetLiu(o) ==
    IF Falsy(o.liu)
    THEN LET r == DoGetN(o)
             v == LiuValue(r.value.v)
         IN  [o |-> [Written(Computed(r.o, "liu"), "liu") EXCEPT !.liu = v],
              value |-> v]
    ELSE [o |-> o, value |-> o.liu]

DoIsValidForLiu(o) ==
    LET a == DoGetFU(o)
        b == DoGetLiu(a.o)
    IN  [o |-> b.o, value |-> Bool(LessOrEqual(a.value, b.value))]

DoGetBini(o, computed) ==
    IF Falsy(o.bini)
    THEN IF computed = Thrown
         THEN [o |-> o, value |-> Thrown]
         ELSE [o |-> [Written(Computed(o, "bini"), "bini") EXCEPT !.bini = computed],
               value |-> computed]
    ELSE [o |-> o, value |-> o.bini]

DoIsValidForBini(o, computed) ==
    LET a == DoGetBini(o, computed)
    IN  [o |-> a.o,
         value |-> IF a.value = Thrown THEN Thrown
                   ELSE Bool(LessOrEqual(a.value, Num(2 * FuScale)))]

\* a call of an accessor that has no loop: the fields after it, its return
Returns(name, r) ==
    /\ hyperperiod' = r.o.hyperperiod /\ fu' = r.o.fu /\ n' = r.o.n
    /\ liu' = r.o.liu /\ bini' = r.o.bini
    /\ writes' = r.o.writes /\ computations' = r.o.computations
    /\ ret' = [call |-> name, value |-> r.value]
    /\ calls' = calls + 1
    /\ UNCHANGED <<parseVars, firstFreeSlot, rmScheduling, pc, ffsVars, rmVars>>

MaxCalls == 2

CanCall == outcome = "ok" /\ pc = "idle" /\ calls < MaxCalls

GetHyperperiod == CanCall /\ Returns("getHyperperiod", DoGetHyperperiod(Object))
GetFU == CanCall /\ Returns("getFU", DoGetFU(Object))
GetN == CanCall /\ Returns("getN", DoGetN(Object))
GetLiu == CanCall /\ Returns("getLiu", DoGetLiu(Object))
IsValidForLiu == CanCall /\ Returns("isValidForLiu", DoIsValidForLiu(Object))
GetBini ==
    /\ CanCall
    /\ \E computed \in BiniOutcomes(tasks) :
           Returns("getBini", DoGetBini(Object, computed))
IsValidForBini ==
    /\ CanCall
    /\ \E computed \in BiniOutcomes(tasks) :
           Returns("isValidForBini", DoIsValidForBini(Object, computed))

\* getTaskTiming computes the sequence on every call; it stores nothing.
GetTaskTiming ==
    /\ CanCall
    /\ Returns("getTaskTiming",
               [o |-> Computed(Object, "responseTimes"),
                value |-> Array(getTaskTiming(mathjs, tasks))])

(***************************************************************************)
(* getFirstFreeSlot: the call, then one action per iteration of its loop   *)
(***************************************************************************)
MaxFFSIterations == 52

\* Up to the loop.  _firstFreeSlot is never assigned, so the early return
\* is taken only if the field is not null.
GetFirstFreeSlot ==
    /\ CanCall
    /\ calls' = calls + 1
    /\ IF firstFreeSlot # Null
       THEN /\ ret' = [call |-> "getFirstFreeSlot", value |-> firstFreeSlot]
            /\ UNCHANGED <<pc, ffsVars, computations>>
       ELSE /\ pc' = "getFirstFreeSlot"
            /\ previousResult' = Null
            /\ currentResult' = FirstFreeSlotSeed(getTaskTiming(mathjs, tasks))
            /\ iterations' = 0
            /\ computations' =
                   [computations EXCEPT !["responseTimes"] = @ + 1,
                                        !["firstFreeSlot"] = @ + 1]
            /\ UNCHANGED ret
    /\ UNCHANGED <<parseVars, memoVars, writes, rmVars>>

\* One pass of the do-while body and its test.  With no task the sum is
\* empty and the body gives 1 whatever previousResult is; NaN differs from
\* every number.
FFSIterate ==
    /\ pc = "getFirstFreeSlot"
    /\ iterations < MaxFFSIterations
    /\ previousResult' = currentResult
    /\ currentResult' = FirstFreeSlotIteration(mathjs, tasks, currentResult)
    /\ iterations' = iterations + 1
    /\ IF ~JSEqual(currentResult, currentResult')
       THEN UNCHANGED <<pc, ret>>
       ELSE /\ pc' = "idle"
            /\ ret' = [call |-> "getFirstFreeSlot", value |-> currentResult]
    /\ UNCHANGED <<parseVars, memoVars, ghostVars, calls, rmVars>>

(***************************************************************************)
(* getRMScheduling: the call, one action per cell, the return              *)
(***************************************************************************)
MaxCells == 12

GetRMScheduling ==
    /\ CanCall
    /\ calls' = calls + 1
    /\ IF rmScheduling.tag = "result"
       THEN /\ ret' = [call |-> "getRMScheduling", value |-> rmScheduling]
            /\ UNCHANGED <<pc, rmVars, computations>>
       ELSE /\ pc' = "getRMScheduling"
            /\ unattendendTasks' = [k \in 1..Len(tasks) |-> tasks[k].id]
            /\ executionCount' = [k \in 1..Len(tasks) |-> 0]
            /\ nextStart' = [k \in 1..Len(tasks) |-> tasks[k].period]
            /\ scheduling' = [k \in 1..Len(tasks) |-> <<>>]
            /\ currentCell' = 0
            /\ executionOrder' = <<>>
            /\ computations' = [computations EXCEPT !["rmScheduling"] = @ + 1]
            /\ UNCHANGED ret
    /\ UNCHANGED <<parseVars, memoVars, writes, ffsVars>>

RMLocals ==
    [unattendendTasks |-> unattendendTasks, executionCount |-> executionCount,
     nextStart |-> nextStart, scheduling |-> scheduling,
     currentCell |-> currentCell, executionOrder |-> executionOrder,
     selected |-> FALSE]

\* one iteration of the while loop
RMCell ==
    /\ pc = "getRMScheduling"
    /\ Len(unattendendTasks) > 0
    /\ currentCell < MaxCells
    /\ LET st == RMCellLoop(tasks, RMLocals, Len(tasks))
       IN  /\ unattendendTasks' = st.unattendendTasks
           /\ executionCount' = st.executionCount
           /\ nextStart' = st.nextStart
           /\ scheduling' = st.scheduling
           /\ executionOrder' = st.executionOrder
           /\ currentCell' = currentCell + 1
    /\ UNCHANGED <<parseVars, memoVars, ghostVars, calls, ret, pc, ffsVars>>

\* the loop has ended: the result is stored and returned
RMReturn ==
    /\ pc = "getRMScheduling"
    /\ Len(unattendendTasks) = 0
    /\ LET result == [tag |-> "result", isScheludable |-> TRUE,
                      mapping |-> scheduling, order |-> executionOrder]
       IN  /\ rmScheduling' = result
           /\ ret' = [call |-> "getRMScheduling", value |-> result]
    /\ writes' = [writes EXCEPT !["rmScheduling"] = @ + 1]
    /\ pc' = "idle"
    /\ UNCHANGED <<parseVars, hyperperiod, fu, n, liu, bini, firstFreeSlot,
                   computations, calls, ffsVars, rmVars>>

(***************************************************************************)
(* The specification of the analysed system: any sequence of accessor      *)
(* calls on one constructed System                                         *)
(***************************************************************************)
MaxTasks == 2
MaxC == 2
MaxT == 3

Init == Constructed(SystemsOver(Grid(MaxC, MaxT), MaxTasks))

Next ==
    \/ GetHyperperiod \/ GetFU \/ GetN \/ GetLiu \/ IsValidForLiu
    \/ GetBini \/ IsValidForBini \/ GetTaskTiming
    \/ GetFirstFreeSlot \/ FFSIterate
    \/ GetRMScheduling \/ RMCell \/ RMReturn

Spec == Init /\ [][Next]_vars

(***************************************************************************)
(* The specification of the response-time solver: getTaskTiming on systems *)
(* that include slowly converging ones                                     *)
(***************************************************************************)
MaxTimingTasks == 3
MaxTimingC == 1
MaxTimingT == 2

\* Higher-priority load close to the whole processor: the recurrence of the
\* third task moves by a few units per pass.
SlowTasks == {<<3, 5>>, <<3, 8>>, <<7, 1>>}

\* Harmonic periods, utilization below 1, and a first task that leaves one
\* hundredth of the processor: each pass of the second task's recurrence
\* admits one more job of the first.
SlowHarmonicTasks == {<<99, 100>>, <<60, 20000>>}

TimingPool == Grid(MaxTimingC, MaxTimingT) \cup SlowTasks \cup SlowHarmonicTasks

\* A task that asks for ten million times the processor: the values of the
\* recurrences it interferes with leave the range of the doubles within
\* MaxIterations passes.
OverflowSystems ==
    {SystemOf(<<<<1, 1>>, <<10000000, 1>>>>),
     SystemOf(<<<<1, 1>>, <<10000000, 1>>, <<1, 1>>>>),
     SystemOf(<<<<10000000, 1>>, <<0, 1>>, <<1, 1>>>>)}

InitTiming ==
    Constructed(SystemsOver(TimingPool, MaxTimingTasks) \cup OverflowSystems)

NextTiming == GetTaskTiming

SpecTiming == InitTiming /\ [][NextTiming]_vars

(***************************************************************************)
(* The specification of the Liu and Layland test: its accessors on systems *)
(* that include utilizations at the bound                                  *)
(***************************************************************************)
MaxLiuTasks == 2

LiuBoundaryTasks == {<<83, 100>>, <<200, 500>>, <<301, 700>>}

LiuPool == Grid(MaxC, MaxT) \cup LiuBoundaryTasks

InitLiu == Constructed(SystemsOver(LiuPool, MaxLiuTasks))

NextLiu == GetFU \/ GetN \/ GetLiu \/ IsValidForLiu

SpecLiu == InitLiu /\ [][NextLiu]_vars

(***************************************************************************)
(* The specification of the two utilization tests together: the Liu and    *)
(* the Bini accessors on systems of up to four tasks, with utilizations at *)
(* the rounded Liu bound of four tasks                                     *)
(***************************************************************************)
MaxBoundTasks == 4

BoundPool == {<<0, 1>>, <<1, 2>>, <<1, 4>>, <<19, 100>>}

InitBounds == Constructed(SystemsOver(BoundPool, MaxBoundTasks))

NextBounds ==
    \/ GetFU \/ GetN \/ GetLiu \/ IsValidForLiu \/ GetBini \/ IsValidForBini

SpecBounds == InitBounds /\ [][NextBounds]_vars

(***************************************************************************)
(* The specification of the slack calculator: calculateTaskSlack for a     *)
(* task of the System, a response time and a task index                    *)
(***************************************************************************)
MaxSlackTasks == 2
MaxResponseTime == 6

CalculateTaskSlack ==
    /\ CanCall
    /\ \E a \in 1..Len(tasks), responseTime \in -1..MaxResponseTime,
          taskIndex \in 0..Len(tasks) :
           ret' = [call |-> "calculateTaskSlack",
                   value |-> calculateTaskSlack(tasks, tasks[a], responseTime,
                                                taskIndex),
                   args |-> [task |-> a, responseTime |-> responseTime,
                             taskIndex |-> taskIndex]]
    /\ calls' = calls + 1
    /\ UNCHANGED <<parseVars, memoVars, ghostVars, pc, ffsVars, rmVars>>

InitSlack == Constructed(SystemsOver(Grid(MaxC, MaxT), MaxSlackTasks))

NextSlack == CalculateTaskSlack

SpecSlack == InitSlack /\ [][NextSlack]_vars

(***************************************************************************)
(* The specification of the simulator: getRMScheduling, cell by cell       *)
(***************************************************************************)
\* Tasks whose period is twice another period: the first task is released
\* again while the second is still running.
LongPeriodTasks == {<<1, 4>>, <<2, 4>>}

RMPool == Grid(MaxC, MaxT) \cup LongPeriodTasks

InitRM == Constructed(SystemsOver(RMPool, MaxTasks))

NextRM == GetRMScheduling \/ RMCell \/ RMReturn

SpecRM == InitRM /\ [][NextRM]_vars

(***************************************************************************)
(* The specification of the first-free-slot solver: getFirstFreeSlot, pass *)
(* by pass                                                                 *)
(***************************************************************************)
InitFFS == Constructed(SystemsOver(Grid(MaxC, MaxT), MaxTasks) \cup OverflowSystems)

NextFFS == GetFirstFreeSlot \/ FFSIterate

SpecFFS == InitFFS /\ [][NextFFS]_vars

(***************************************************************************)
(* The specification of getNextExpiration: the method on a constructed     *)
(* System, for a reference cell and a period                               *)
(***************************************************************************)
MaxReference == 6
MaxPeriod == 4

GetNextExpiration ==
    /\ CanCall
    /\ \E referenceCell \in -MaxReference..MaxReference, period \in 1..MaxPeriod :
           ret' = [call |-> "getNextExpiration",
                   value |-> Num(getNextExpiration(referenceCell, period)),
                   args |-> [referenceCell |-> referenceCell, period |-> period]]
    /\ calls' = calls + 1
    /\ UNCHANGED <<parseVars, memoVars, ghostVars, pc, ffsVars, rmVars>>

InitExpiration == Constructed(SystemsOver(Grid(MaxTimingC, MaxTimingT), 1))

NextExpiration == GetNextExpiration

SpecExpiration == InitExpiration /\ [][NextExpiration]_vars

(***************************************************************************)
(* Statements about the parser                                             *)
(***************************************************************************)
IsSpace(piece) == piece.kind = "other" /\ piece.text = <<" ">>
IsComma(piece) == piece.kind = "other" /\ piece.text = <<",">>

\* the pieces that are not a lone space, in order
NonSpacePieces(ps) == SelectSeq(ps, LAMBDA piece : ~IsSpace(piece))

\* the text was written as n >= 0 triples separated by commas
WellFormedPieces(ps) ==
    LET q == NonSpacePieces(ps)
    IN  \/ q = <<>>
        \/ /\ Len(q) % 2 = 1
           /\ \A k \in 1..Len(q) :
                 IF k % 2 = 1 THEN q[k].kind = "triple" ELSE IsComma(q[k])

\* the triples written, left to right
WrittenTriples(ps) ==
    LET q == SelectSeq(ps, LAMBDA piece : piece.kind = "triple")
    IN  [k \in 1..Len(q) |-> q[k].value]

\* C1: a text of n >= 0 well-formed triples separated by commas, spaces
\* allowed, constructs a System with exactly n tasks, ids 1..n in order of
\* appearance, whose executionTime, period and deadline are the C, T and D
\* written; the empty text gives an empty task list and no error.
C1_WellFormedTextParses ==
    (outcome # "new" /\ WellFormedPieces(pieces)) =>
        LET w == WrittenTriples(pieces)
        IN  /\ outcome = "ok"
            /\ Len(tasks) = Len(w)
            /\ \A k \in 1..Len(w) :
                  /\ tasks[k].id = k
                  /\ tasks[k].executionTime = w[k][1]
                  /\ tasks[k].period = w[k][2]
                  /\ tasks[k].expire = w[k][3]

C1_Witness ==
    /\ outcome = "ok"
    /\ WellFormedPieces(pieces)
    /\ Len(tasks) = 2
    /\ tasks[1].executionTime = 20
    /\ tasks[2].period = 12
    /\ \E k \in 1..Len(pieces) : IsSpace(pieces[k])

\* the text without its spaces
NoSpaces(text) == SelectSeq(text, LAMBDA ch : ch # " ")

\* parenthesis depth after the first p characters of s (never below 0)
RECURSIVE DepthAfter(_, _)
DepthAfter(s, p) ==
    IF p = 0 THEN 0
    ELSE LET d == DepthAfter(s, p - 1)
         IN  CASE s[p] = "(" -> d + 1
               [] s[p] = ")" -> IF d > 0 THEN d - 1 ELSE 0
               [] OTHER -> d

\* positions of the commas of s at depth 0
SeparatorPositions(s) ==
    {p \in 1..Len(s) : s[p] = "," /\ DepthAfter(s, p - 1) = 0}

\* s is exactly (<int>,<int>,<int>)
IsExactTriple(s) ==
    /\ Len(s) >= 7
    /\ s[1] = "(" /\ s[Len(s)] = ")"
    /\ LET inner == SubSeq(s, 2, Len(s) - 1)
           commas == {p \in 1..Len(inner) : inner[p] = ","}
       IN  /\ Cardinality(commas) = 2
           /\ \A p \in 1..Len(inner) : p \notin commas => inner[p] \in Digits
           /\ \A p \in commas :
                 /\ p > 1 /\ p < Len(inner)
                 /\ (p + 1) \notin commas

\* Some segment between depth-0 commas is not exactly a triple.  The empty
\* remainder after the last separator (or of an empty text) is no segment.
HasMalformedSegment(text) ==
    LET s == NoSpaces(text)
        seps == SeparatorPositions(s)
        bounds == seps \cup {0, Len(s) + 1}
    IN  \E a \in bounds : \E b \in bounds :
           /\ a < b
           /\ \A c \in bounds : ~(a < c /\ c < b)
           /\ ~(b = Len(s) + 1 /\ a = Len(s))
           /\ ~IsExactTriple(SubSeq(s, a + 1, b - 1))

\* C2: a text with a segment (between depth-0 commas, spaces removed) that
\* is not exactly a triple fails construction with an error, and no System
\* is returned.
C2_MalformedSegmentFails ==
    (outcome # "new" /\ HasMalformedSegment(systemText)) =>
        (outcome = "error" /\ tasks = <<>>)

\* s has a closing parenthesis with no opening one before it, or an opening
\* one that is never closed
Count(s, ch, p) == Cardinality({q \in 1..p : s[q] = ch})

UnbalancedParentheses(s) ==
    \/ \E p \in 1..Len(s) : Count(s, ")", p) > Count(s, "(", p)
    \/ Count(s, "(", Len(s)) # Count(s, ")", Len(s))

\* C3: a text with unbalanced parentheses fails construction with an error
\* and no System is created.
C3_UnbalancedFails ==
    (outcome # "new" /\ UnbalancedParentheses(systemText)) =>
        (outcome = "error" /\ tasks = <<>>)

(***************************************************************************)
(* Statements about the response-time solver                               *)
(***************************************************************************)
\* ceil(a / b) for b >= 1
Ceiling(a, b) == IF a % b = 0 THEN a \div b ELSE (a \div b) + 1

\* the demand of the tasks before position i within a window of length t
RECURSIVE Demand(_, _)
Demand(i, t) ==
    IF i = 1 THEN 0
    ELSE Demand(i - 1, t) + Ceiling(t, tasks[i - 1].period) * tasks[i - 1].executionTime

\* t solves the response-time equation of the task at position i
SolvesRecurrence(i, t) == t = tasks[i].executionTime + Demand(i, t)

\* A reported entry solves the equation: it is a whole number t for which
\* the two sides are equal.
EntrySolvesRecurrence(i, entry) ==
    entry.tag = "num" /\ SolvesRecurrence(i, entry.v)

\* C4: getTaskTiming returns one entry per task, in order; the first is the
\* first task's execution time; every later entry that is not -1 solves
\* t = C_i + sum over j < i of ceil(t / T_j) * C_j.
C4_TimingSolvesRecurrence ==
    ret.call = "getTaskTiming" =>
        LET r == ret.value.v
        IN  /\ Len(r) = Len(tasks)
            /\ Len(tasks) >= 1 => r[1] = Num(tasks[1].executionTime)
            /\ \A i \in 2..Len(tasks) :
                  r[i] # Num(-1) => EntrySolvesRecurrence(i, r[i])

\* the magnitude from which the recurrence is followed only while it can
\* still reach a fixed point
ValueCap == 1000000

\* the least common multiple of the periods of tasks[0..taskIndex-1]
RECURSIVE InterferingLcm(_, _)
InterferingLcm(ts, taskIndex) ==
    IF taskIndex = 1 THEN ts[1].period
    ELSE Lcm(InterferingLcm(ts, taskIndex - 1), ts[taskIndex].period)

\* what tasks[0..taskIndex-1] execute in an interval of length l, a common
\* multiple of their periods
RECURSIVE InterferingDemand(_, _, _)
InterferingDemand(ts, taskIndex, l) ==
    IF taskIndex = 0 THEN 0
    ELSE InterferingDemand(ts, taskIndex - 1, l)
         + ts[taskIndex].executionTime * (l \div ts[taskIndex].period)

\* the sum of the execution times of tasks[0..taskIndex-1]
RECURSIVE InterferingExecution(_, _)
InterferingExecution(ts, taskIndex) ==
    IF taskIndex = 0 THEN 0
    ELSE InterferingExecution(ts, taskIndex - 1) + ts[taskIndex].executionTime

\* The recurrence, having reached `iteration`, can reach no fixed point.  With
\* U = sum Cj/Tj > 1 over the interfering tasks, the body maps t > 0 to
\* C + sum ceil(t/Tj)*Cj >= C + U*t > t, and maps t < 0 to at most
\* C + sum Cj + U*t, which is < t once -t > l * (C + sum Cj) because
\* U - 1 >= 1/l: every later value differs from the one before it.
NeverFinishes(ts, task, taskIndex, iteration) ==
    /\ taskIndex >= 1
    /\ iteration > ValueCap \/ iteration < -ValueCap
    /\ LET l == InterferingLcm(ts, taskIndex)
       IN  /\ InterferingDemand(ts, taskIndex, l) > l
           /\ iteration < 0 =>
                  -iteration > l * (task.executionTime
                                    + InterferingExecution(ts, taskIndex))

\* t(0), ..., t(k) of the recurrence of the task at position i, from the
\* seed getTaskTiming gives it: the previous entry plus C_i.  Once the
\* recurrence can reach no fixed point any more (its values move away from
\* zero for ever) the entries only record that they keep changing.
RECURSIVE Iterates(_, _, _)
Iterates(i, seed, k) ==
    IF k = 0 THEN <<seed>>
    ELSE LET its == Iterates(i, seed, k - 1)
             last == its[Len(its)]
         IN  Append(its, IF NeverFinishes(tasks, tasks[i], i - 1, last)
                         THEN IF last > 0 THEN last + 1 ELSE last - 1
                         ELSE tasks[i].executionTime + Demand(i, last))

\* C5: for every task after the first, getTaskTiming reports -1 exactly when
\* the recurrence reaches no fixed point t(k+1) = t(k) within 50 iterations,
\* and reports the fixed point when one is reached on or before the 50th.
C5_SentinelIffNoFixedPoint ==
    ret.call = "getTaskTiming" =>
        LET r == ret.value.v
        IN  \A i \in 2..Len(tasks) :
               r[i - 1].tag = "num" =>
                   LET its == Iterates(i, r[i - 1].v + tasks[i].executionTime,
                                       MaxIterations)
                       hits == {k \in 1..MaxIterations : its[k + 1] = its[k]}
                   IN  /\ (r[i] = Num(-1)) <=> (hits = {})
                       /\ hits # {} => \E k \in hits : r[i] = Num(its[k])

(***************************************************************************)
(* Statements about getFirstFreeSlot and getRMScheduling                   *)
(***************************************************************************)
\* C6: getFirstFreeSlot terminates on every system: its loop returns a fixed
\* point or stops at an iteration bound, the engine's MaxIterations passes.
C6_FirstFreeSlotStopsAtBound ==
    pc = "getFirstFreeSlot" => iterations <= MaxIterations

\* least common multiple of the periods of all tasks
RECURSIVE PeriodsLcm(_)
PeriodsLcm(k) ==
    IF k = 0 THEN 1
    ELSE LET h == PeriodsLcm(k - 1)
             t == tasks[k].period
         IN  CHOOSE m \in 1..(h * t) :
                /\ m % h = 0 /\ m % t = 0
                /\ \A m2 \in 1..(m - 1) : ~(m2 % h = 0 /\ m2 % t = 0)

TrueBits(row) == Cardinality({c \in 1..Len(row) : row[c]})

\* C7: in the table getRMScheduling produces, the number of true bits of
\* each task equals executionTime * (hyperperiod / period).
C7_OccupancyPerHyperperiod ==
    (ret.call = "getRMScheduling" /\ pc = "idle") =>
        \A k \in 1..Len(tasks) :
           TrueBits(ret.value.mapping[tasks[k].id]) =
               tasks[k].executionTime * (PeriodsLcm(Len(tasks)) \div tasks[k].period)

(***************************************************************************)
(* Statements about memoization and the Liu and Layland test               *)
(***************************************************************************)
\* C8: each memoized derived field is computed and written at most once,
\* however many times the accessors are called.
C8_FieldsWrittenOnce ==
    \A f \in FieldNames : writes[f] <= 1 /\ computations[f] <= 1

\* (U / k + 1)^k <= 2 for a utilization of u hundredths: u <= k(2^(1/k) - 1)
WithinExactLiuBound(u, k) == (u + k * FuScale) ^ k <= 2 * (k * FuScale) ^ k

\* C9: on a non-empty system isValidForLiu returns true exactly when the
\* total utilization is at most n(2^(1/n) - 1).
C9_LiuTestIsExact ==
    (ret.call = "isValidForLiu" /\ Len(tasks) >= 1) =>
        (ret.value.v <=> WithinExactLiuBound(fu.v, Len(tasks)))

\* tasks in rate-monotonic priority order (deadline = period in every
\* system drawn)
PriorityOrdered ==
    \A k \in 1..(Len(tasks) - 1) : tasks[k].period <= tasks[k + 1].period

\* the worst-case response time of the task at position i exists and is at
\* most its period
MeetsDeadline(i) == \E t \in 0..tasks[i].period : SolvesRecurrence(i, t)

\* C10: if isValidForLiu returns true on a non-empty system in priority
\* order, every task's worst-case response time is at most its period.
C10_LiuImpliesSchedulable ==
    (ret.call = "isValidForLiu" /\ ret.value.v /\ Len(tasks) >= 1 /\ PriorityOrdered) =>
        \A i \in 1..Len(tasks) : MeetsDeadline(i)

(***************************************************************************)
(* Statements about the two utilization tests together                     *)
(***************************************************************************)
\* The verdict of isValidForLiu on this System, once getFU and getLiu have
\* stored the values it compares.
LiuEvaluated == fu.tag = "num" /\ liu.tag = "num"
LiuVerdict == LessOrEqual(fu, liu)

\* C11: on a non-empty system, when isValidForLiu() is true, isValidForBini()
\* returns true as well: Bini never fails a system that passes Liu.
C11_LiuImpliesBini ==
    (/\ ret.call = "isValidForBini"
     /\ Len(tasks) > 0
     /\ LiuEvaluated
     /\ LiuVerdict) => ret.value = Bool(TRUE)

\* C12: on a System with no task, the Liu bound, the Bini bound, the
\* hyperperiod and the two tests built on them end in an error; none returns
\* a number, NaN or a verdict.
BoundCalls ==
    {"getLiu", "getBini", "getHyperperiod", "isValidForLiu", "isValidForBini"}

C12_EmptySystemIsAnError ==
    (Len(tasks) = 0 /\ ret.call \in BoundCalls) => ret.value = Thrown

(***************************************************************************)
(* Statements about the slack calculator                                   *)
(***************************************************************************)
\* the candidate instants of a call and the raw slack at each of them
SlackCandidates(a, responseTime) ==
    getSlackExpirations(tasks, tasks[a].period, responseTime,
                        tasks[a].executionTime)

RawSlack(a, taskIndex, e) ==
    tasks[a].period
    - SumSeq([k \in 1..(taskIndex + 1) |->
                 Ceiling(e, tasks[k].period) * tasks[k].executionTime])

RawMinimum(a, responseTime, taskIndex) ==
    LET es == SlackCandidates(a, responseTime)
    IN  CHOOSE m \in {RawSlack(a, taskIndex, es[j]) : j \in 1..Len(es)} :
            \A j \in 1..Len(es) : m <= RawSlack(a, taskIndex, es[j])

\* C13: when candidate instants exist, calculateTaskSlack returns the minimum
\* over them of period - demand, and 0 in place of a negative minimum.
C13_SlackIsNonNegativeMinimum ==
    (/\ ret.call = "calculateTaskSlack"
     /\ ret.args.taskIndex < Len(tasks)
     /\ SlackCandidates(ret.args.task, ret.args.responseTime) # <<>>) =>
        LET m == RawMinimum(ret.args.task, ret.args.responseTime,
                            ret.args.taskIndex)
        IN  ret.value = Num(IF m < 0 THEN 0 ELSE m)

(***************************************************************************)
(* Statements about the cells of the simulation                            *)
(***************************************************************************)
\* The task at position k is pending in the current cell: it is in the
\* pending list or it is released at this cell.
PendingInCell(k) ==
    \/ \E j \in 1..Len(unattendendTasks) : unattendendTasks[j] = tasks[k].id
    \/ currentCell = nextStart[k]

HighestPriorityPending ==
    CHOOSE k \in 1..Len(tasks) :
        PendingInCell(k) /\ \A j \in 1..(k - 1) : ~PendingInCell(j)

CellSimulated == pc = "getRMScheduling" /\ currentCell' = currentCell + 1

\* C14: a simulated cell gives a true bit to the lowest-index task pending
\* in it and a false bit to every other task, and appends that task's id to
\* the execution order; every row and the order have one entry per cell.
C14_CellGoesToHighestPriorityPending ==
    [][CellSimulated =>
         /\ \E k \in 1..Len(tasks) : PendingInCell(k)
         /\ \A k \in 1..Len(tasks) :
               /\ scheduling'[k] = Append(scheduling[k], k = HighestPriorityPending)
               /\ Len(scheduling'[k]) = currentCell'
         /\ executionOrder' = Append(executionOrder, tasks[HighestPriorityPending].id)
         /\ Len(executionOrder') = currentCell']_vars

\* a lower-priority task ran while the first was complete, and was
\* preempted at the first task's next release
C14_Witness ==
    /\ pc = "getRMScheduling"
    /\ Len(tasks) = 2
    /\ currentCell >= 3
    /\ scheduling[2][2] /\ ~scheduling[1][2]
    /\ scheduling[1][3] /\ ~scheduling[2][3]
    /\ executionOrder[2] = 2 /\ executionOrder[3] = 1

\* the utilization of the whole system is at most 1, exactly
UtilizationAtMostOne ==
    LET h == PeriodsLcm(Len(tasks))
    IN  SumSeq([k \in 1..Len(tasks) |->
                   tasks[k].executionTime * (h \div tasks[k].period)]) <= h

PositiveExecutionTimes == \A k \in 1..Len(tasks) : tasks[k].executionTime >= 1

\* C19: with execution times >= 1 and utilization <= 1 the pending set is
\* empty after at most hyperperiod cells: the loop never starts a cell past
\* the hyperperiod.
C19_SimulationEndsWithinHyperperiod ==
    (/\ pc = "getRMScheduling"
     /\ PositiveExecutionTimes
     /\ UtilizationAtMostOne
     /\ Len(unattendendTasks) > 0) => currentCell < PeriodsLcm(Len(tasks))

\* the loop ended exactly at the hyperperiod of a fully used processor
C19_Witness ==
    /\ pc = "idle" /\ ret.call = "getRMScheduling"
    /\ Len(tasks) = 2
    /\ PositiveExecutionTimes /\ UtilizationAtMostOne
    /\ tasks[1].period # tasks[2].period
    /\ currentCell = PeriodsLcm(Len(tasks))

\* C20: during the simulation no task's executionCount exceeds its
\* executionTime, an execution time of 0 included.
C20_ExecutionCountBounded ==
    pc = "getRMScheduling" =>
        \A k \in 1..Len(tasks) : executionCount[k] <= tasks[k].executionTime

(***************************************************************************)
(* Statements about the seed and the iterates of the response-time solver  *)
(***************************************************************************)
\* the passes (1 .. MaxIterations) at which the recurrence of the task at
\* position i, started from seed, repeats its previous value
FixedPointPasses(i, seed) ==
    LET its == Iterates(i, seed, MaxIterations)
    IN  {k \in 1..MaxIterations : its[k + 1] = its[k]}

ConvergesFrom(i, seed) == FixedPointPasses(i, seed) # {}

\* the fixed point the recurrence reaches from seed
FixedPointFrom(i, seed) ==
    LET its == Iterates(i, seed, MaxIterations)
    IN  its[CHOOSE k \in FixedPointPasses(i, seed) :
                \A k2 \in FixedPointPasses(i, seed) : k <= k2]

\* the seed getTaskTiming gives the task at position i: the entry reported
\* for the task before it, plus C_i
ChainedSeed(r, i) == r[i - 1].v + tasks[i].executionTime

\* C15: when the recurrence of a task converges within the cap from the
\* chained seed and from the standard seed C_i, the reported response time
\* is the fixed point reached from C_i.
C15_ChainedSeedSameFixedPoint ==
    ret.call = "getTaskTiming" =>
        LET r == ret.value.v
        IN  \A i \in 2..Len(tasks) :
               (/\ r[i - 1].tag = "num"
                /\ ConvergesFrom(i, ChainedSeed(r, i))
                /\ ConvergesFrom(i, tasks[i].executionTime)) =>
                   r[i] = Num(FixedPointFrom(i, tasks[i].executionTime))

\* the seed followed by the iterates getTaskResponse computes for the task
\* at position i within a call of getTaskTiming that reported r
IteratesOfCall(r, i) ==
    LET seed == JSPlus(r[i - 1], FromInt(tasks[i].executionTime))
    IN  <<seed>> \o ResponseIterations(mathjs, tasks, tasks[i], i - 1, seed, 0)

LessParts(p, q) ==
    IF p.neg # q.neg THEN p.neg
    ELSE IF p.neg THEN SmallerParts(q, p) ELSE SmallerParts(p, q)

\* x < y on numbers: false when either is NaN
LessThan(x, y) ==
    CASE x.tag = "NaN" \/ y.tag = "NaN" -> FALSE
      [] x.tag = "infinity" -> x.neg /\ y # x
      [] y.tag = "infinity" -> ~y.neg
      [] x.tag = "num" /\ y.tag = "num" -> x.v < y.v
      [] OTHER -> LessParts(Parts(x), Parts(y))

\* x >= y on numbers: false when either is NaN
AtLeast(x, y) == JSEqual(x, y) \/ LessThan(y, x)

\* C16: the iterates of the recurrence inside getTaskResponse never
\* decrease, from the seed on, also after a -1 entry of the previous task.
C16_IteratesNeverDecrease ==
    ret.call = "getTaskTiming" =>
        \A i \in 2..Len(tasks) :
           LET its == IteratesOfCall(ret.value.v, i)
           IN  \A k \in 1..(Len(its) - 1) : AtLeast(its[k + 1], its[k])

\* each period divides the next one, in non-decreasing order
HarmonicPeriods ==
    \A k \in 1..(Len(tasks) - 1) :
       /\ tasks[k].period <= tasks[k + 1].period
       /\ tasks[k + 1].period % tasks[k].period = 0

\* total utilization < 1, exactly; with harmonic periods the longest period
\* is a multiple of every period
HarmonicUtilizationBelowOne ==
    LET h == tasks[Len(tasks)].period
    IN  SumSeq([k \in 1..Len(tasks) |->
                   tasks[k].executionTime * (h \div tasks[k].period)]) < h

\* C17: with harmonic periods and total utilization < 1 every recurrence
\* converges within the cap: getTaskTiming holds no -1.
C17_HarmonicSystemsConverge ==
    (/\ ret.call = "getTaskTiming"
     /\ Len(tasks) >= 1
     /\ HarmonicPeriods
     /\ HarmonicUtilizationBelowOne) =>
        \A i \in 1..Len(tasks) : ret.value.v[i] # Num(-1)

(***************************************************************************)
(* Statements about the value of getFirstFreeSlot                          *)
(***************************************************************************)
\* m = 1 + sum over all tasks of ceil(m / T_j) * C_j
SolvesFreeSlotEquation(m) ==
    m = 1 + SumSeq([k \in 1..Len(tasks) |->
                       Ceiling(m, tasks[k].period) * tasks[k].executionTime])

\* the entry getTaskTiming reports for the last task
LastResponseTime == getTaskTiming(mathjs, tasks)[Len(tasks)]

\* getFirstFreeSlot returned a number
FirstFreeSlotReturned ==
    /\ pc = "idle" /\ ret.call = "getFirstFreeSlot"
    /\ ret.value.tag \in {"num", "double", "infinity"}

\* A returned value solves the equation: it is a whole number m for which
\* the two sides are equal.
ValueSolvesFreeSlotEquation(m) ==
    m.tag = "num" /\ SolvesFreeSlotEquation(m.v)

\* C18: a value m returned by getFirstFreeSlot solves the equation over all
\* tasks, is greater than the last task's response time, and no value
\* between that response time and m solves the equation.
C18_FirstFreeSlotIsEarliest ==
    FirstFreeSlotReturned =>
        LET m == ret.value
        IN  /\ ValueSolvesFreeSlotEquation(m)
            /\ Len(tasks) >= 1 =>
                  /\ LessThan(LastResponseTime, m)
                  /\ (m.tag = "num" /\ LastResponseTime.tag = "num") =>
                         \A m2 \in (LastResponseTime.v + 1)..(m.v - 1) :
                            ~SolvesFreeSlotEquation(m2)

(***************************************************************************)
(* Statements about the simulation and the response times together         *)
(***************************************************************************)
\* every entry of getTaskTiming is a response time within the task's period
AllWithinPeriod ==
    LET r == getTaskTiming(mathjs, tasks)
    IN  \A k \in 1..Len(tasks) :
           r[k].tag = "num" /\ r[k].v # -1 /\ r[k].v <= tasks[k].period

SimulationReturned == pc = "idle" /\ ret.call = "getRMScheduling"

\* the first instance of the task at position k takes its last cell at cell
\* index t - 1: the row has its executionTime-th true bit there
FirstInstanceCompletesAfter(k, t) ==
    LET row == ret.value.mapping[tasks[k].id]
    IN  /\ t >= 1 /\ Len(row) >= t
        /\ row[t]
        /\ TrueBits(SubSeq(row, 1, t)) = tasks[k].executionTime

\* C21: with execution times >= 1 and every reported response time within
\* the period, the first instance of each task completes in the simulation
\* after exactly as many cells as getTaskTiming reports for it.
C21_FirstCompletionIsResponseTime ==
    (/\ SimulationReturned
     /\ PositiveExecutionTimes
     /\ AllWithinPeriod) =>
        \A k \in 1..Len(tasks) :
           FirstInstanceCompletesAfter(k, getTaskTiming(mathjs, tasks)[k].v)

\* the second task was preempted by the second job of the first
C21_Witness ==
    /\ SimulationReturned
    /\ Len(tasks) = 2
    /\ PositiveExecutionTimes /\ AllWithinPeriod
    /\ getTaskTiming(mathjs, tasks)[2].v >
           tasks[1].executionTime + tasks[2].executionTime

(***************************************************************************)
(* Statements about getNextExpiration                                      *)
(***************************************************************************)
ExpirationReturned == ret.call = "getNextExpiration" /\ ret.value.tag = "num"

\* v is a multiple of period, v >= reference, and no multiple of period lies
\* in from .. v - 1
SmallestMultipleFrom(v, from, reference, period) ==
    /\ v % period = 0
    /\ v >= reference
    /\ \A m \in from..(v - 1) : m % period # 0

\* C22: for all integers reference and period >= 1, getNextExpiration
\* returns the smallest multiple of period that is >= reference.
C22_SmallestMultiple ==
    ExpirationReturned =>
        SmallestMultipleFrom(ret.value.v, ret.args.referenceCell,
                             ret.args.referenceCell, ret.args.period)

\* C22, amended: for all integers reference and period >= 1,
\* getNextExpiration returns the smallest positive multiple of period
\* (k * period with k >= 1) that is >= reference.
C22_SmallestPositiveMultiple ==
    ExpirationReturned =>
        /\ ret.value.v >= ret.args.period
        /\ SmallestMultipleFrom(ret.value.v,
                                IF ret.args.referenceCell > 1
                                THEN ret.args.referenceCell ELSE 1,
                                ret.args.referenceCell, ret.args.period)

\* the loop added the period more than once and passed the reference
C22_Witness ==
    /\ ExpirationReturned
    /\ ret.args.referenceCell > 2 * ret.args.period
    /\ ret.args.referenceCell % ret.args.period # 0
    /\ ret.value.v > ret.args.referenceCell

====
